---- MODULE Spec2Model ----
(***************************************************************************)
(* A model of rakun2.RakunKeyphraseDetector (src/rakun2/class_rakun.py).  *)
(*                                                                         *)
(* A character is a one-character string, a Python str is a sequence of   *)
(* characters, a token is a str.  A term count is a fraction [n, d] in    *)
(* lowest terms (the counts start as integers and are multiplied by       *)
(* merge_threshold on every fusion).  A rank is an integer number of      *)
(* 1/Scale units.                                                          *)
(***************************************************************************)
EXTENDS Integers, Sequences, FiniteSets, TLC

VARIABLES
    hyperparameters,  \* self.hyperparameters, fixed at construction
    attrs,            \* names of the instance attributes that exist
    document,         \* self.document
    full_tokens,      \* self.full_tokens
    tokens,           \* self.tokens
    term_counts,      \* self.term_counts
    sorted_terms_tf,  \* self.sorted_terms_tf
    bigram_counts,    \* self.bigram_counts
    G,                \* self.G
    node_ranks,       \* self.node_ranks
    final_keywords,   \* self.final_keywords
    pc,               \* position inside find_keywords
    args,             \* arguments of the call in progress (or of the last call)
    ret,              \* outcome of the last call
    frame,            \* locals of the stages of the call in progress
    fresh,            \* TRUE until the first call on the instance
    prev              \* outcome of the call before the last one

vars == <<hyperparameters, attrs, document, full_tokens, tokens, term_counts,
          sorted_terms_tf, bigram_counts, G, node_ranks, final_keywords,
          pc, args, ret, frame, fresh, prev>>

-----------------------------------------------------------------------------
(* Characters and the str methods the code uses.                           *)

SP == " "
NL == "\n"
TAB == "\t"
FWComma == "FWCOMMA"   \* the full-width comma U+FF0C of line 274

LowerLetters ==
    {"a", "b", "c", "d", "e", "g", "i", "k", "n", "o", "r", "s", "t", "w", "y"}
UpperLetters == {"A", "B", "I", "S"}
Digits == {"7"}
Whitespace == {SP, NL, TAB}

\* \w of the pattern of line 29
IsWordChar(c) == c \in LowerLetters \cup UpperLetters \cup Digits

\* str.lower() on one character
LowerChar(c) ==
    CASE c = "A" -> "a"
      [] c = "B" -> "b"
      [] c = "I" -> "i"
      [] c = "S" -> "s"
      [] OTHER -> c

\* str.lower()
Lower(s) == [i \in 1..Len(s) |-> LowerChar(s[i])]

\* str.isdigit(): non-empty and every character a digit
IsDigit(s) == Len(s) > 0 /\ \A i \in 1..Len(s) : s[i] \in Digits

\* str.count(c)
Count(s, c) == Cardinality({i \in 1..Len(s) : s[i] = c})

RECURSIVE LStrip(_)
LStrip(s) ==
    IF s # <<>> /\ Head(s) \in Whitespace THEN LStrip(Tail(s)) ELSE s

RECURSIVE RStrip(_)
RStrip(s) ==
    IF s # <<>> /\ s[Len(s)] \in Whitespace
    THEN RStrip(SubSeq(s, 1, Len(s) - 1)) ELSE s

\* str.strip()
Strip(s) == RStrip(LStrip(s))

\* str.split("\n"): the pieces between newlines, at least one piece
RECURSIVE SplitFrom(_, _, _)
SplitFrom(s, i, cur) ==
    IF i > Len(s) THEN <<cur>>
    ELSE IF s[i] = NL THEN <<cur>> \o SplitFrom(s, i + 1, <<>>)
    ELSE SplitFrom(s, i + 1, Append(cur, s[i]))

Split(s) == SplitFrom(s, 1, <<>>)

\* " ".join(lines)
RECURSIVE Join(_)
Join(lines) ==
    IF lines = <<>> THEN <<>>
    ELSE IF Len(lines) = 1 THEN lines[1]
    ELSE lines[1] \o <<SP>> \o Join(Tail(lines))

\* re.compile(r"(?u)\b\w\w+\b").findall: the maximal runs of word characters
\* that are at least two characters long, left to right
RECURSIVE FindAllFrom(_, _, _)
FindAllFrom(s, i, run) ==
    LET closed == IF Len(run) >= 2 THEN <<run>> ELSE <<>> IN
    IF i > Len(s) THEN closed
    ELSE IF IsWordChar(s[i]) THEN FindAllFrom(s, i + 1, Append(run, s[i]))
    ELSE closed \o FindAllFrom(s, i + 1, <<>>)

FindAll(s) == FindAllFrom(s, 1, <<>>)

\* the elements of a sequence
Range(s) == {s[i] : i \in 1..Len(s)}

\* a list comprehension [x for x in s if Keep(x)]
Filter(s, Keep(_)) == SelectSeq(s, Keep)

-----------------------------------------------------------------------------
(* tokenize, lines 258-281.                                                *)

\* the characters the first comprehension of the character mode drops
CharModeDropped == {SP, NL, FWComma}

\* space_factor < 0.5 with space_factor = whitespace_count / len(full_tokens),
\* or 0 when nothing matched
CharMode(doc) ==
    LET n == Len(FindAll(doc)) IN
    IF n > 0 THEN 2 * Count(doc, SP) < n ELSE TRUE

\* CharTokens without the strip() of line 271
CharTokensUnstripped(doc) ==
    LET chars == [i \in 1..Len(doc) |-> <<doc[i]>>]
        first == Filter(chars, LAMBDA x : x[1] \notin CharModeDropped)
    IN  Filter(first, LAMBDA x : ~IsDigit(x) /\ SP \notin Range(x))

CharTokens(doc) ==
    LET chars == [i \in 1..Len(Strip(doc)) |-> <<Strip(doc)[i]>>]
        first == Filter(chars, LAMBDA x : x[1] \notin CharModeDropped)
    IN  Filter(first, LAMBDA x : ~IsDigit(x) /\ SP \notin Range(x))

WordTokens(doc) == Filter(FindAll(doc), LAMBDA x : ~IsDigit(x))

TokenizeTokens(doc) ==
    IF CharMode(doc) THEN CharTokens(doc) ELSE WordTokens(doc)

-----------------------------------------------------------------------------
(* Numbers: a term count is an int until a fusion multiplies it by the     *)
(* float merge_threshold; both are kept as exact fractions.                *)

RECURSIVE GCD(_, _)
GCD(a, b) == IF b = 0 THEN a ELSE GCD(b, a % b)

Abs(x) == IF x < 0 THEN -x ELSE x

Frac(n, d) ==
    LET g == GCD(Abs(n), d) IN [n |-> n \div g, d |-> d \div g]

FracInt(k) == [n |-> k, d |-> 1]
FracAdd(a, b) == Frac(a.n * b.d + b.n * a.d, a.d * b.d)
FracSub(a, b) == Frac(a.n * b.d - b.n * a.d, a.d * b.d)
FracMul(a, b) == Frac(a.n * b.n, a.d * b.d)
FracAbs(a) == [n |-> Abs(a.n), d |-> a.d]
FracLess(a, b) == a.n * b.d < b.n * a.d

\* dict item assignment d[k] = v
Put(f, k, v) == [x \in DOMAIN f \cup {k} |-> IF x = k THEN v ELSE f[x]]

\* the distinct elements of a sequence in first-occurrence order: the key
\* order of a dict or Counter filled from it
RECURSIVE Distinct(_)
Distinct(s) ==
    IF s = <<>> THEN <<>>
    ELSE LET init == Distinct(SubSeq(s, 1, Len(s) - 1))
             last == s[Len(s)]
         IN  IF last \in Range(init) THEN init ELSE Append(init, last)

\* sorted(s, key=..., reverse=True): descending and stable, Gt(a, b) being
\* key(a) > key(b)
SortedDesc(s, Gt(_, _)) ==
    LET pos(i) ==
            1 + Cardinality({j \in 1..Len(s) :
                    \/ Gt(s[j], s[i])
                    \/ j < i /\ ~Gt(s[i], s[j])})
    IN  [p \in 1..Len(s) |-> s[CHOOSE i \in 1..Len(s) : pos(i) = p]]

-----------------------------------------------------------------------------
(* compute_tf_scores, lines 105-116, as find_keywords calls it (document   *)
(* is None, so self.tokens is read and not replaced).                      *)

TermCounter(toks) ==
    [t \in Range(toks) |->
        FracInt(Cardinality({i \in 1..Len(toks) : toks[i] = t}))]

SortedTermsTf(toks) ==
    LET counter == TermCounter(toks)
        items == [i \in 1..Len(Distinct(toks)) |->
                     <<Distinct(toks)[i], counter[Distinct(toks)[i]]>>]
    IN  SortedDesc(items, LAMBDA a, b : FracLess(b[2], a[2]))

-----------------------------------------------------------------------------
(* merge_tokens, lines 200-256.                                            *)

TwoGrams(toks) == [enx \in 1..(Len(toks) - 1) |-> <<toks[enx], toks[enx + 1]>>]

BigramCounts(toks) ==
    [g \in Range(TwoGrams(toks)) |->
        Cardinality({i \in 1..Len(TwoGrams(toks)) : TwoGrams(toks)[i] = g})]

\* bgs of lines 215-216 compared with merge_threshold (line 221).  bgs is
\* num / den; with den = 0 numpy yields inf or nan, which is not below any
\* threshold, and the cross-multiplied comparison is false as well.
BgsBelow(count1, count2, bgc, thr) ==
    LET num == FracAdd(FracAbs(FracSub(count1, FracInt(bgc))),
                       FracAbs(FracSub(count2, FracInt(bgc))))
        den == FracAdd(count1, count2)
    IN  FracLess(FracMul(num, FracInt(thr.d)),
                 FracMul(den, FracInt(thr.n)))

\* lines 222-224
LongEnough(token1, token2, hp) ==
    Len(token2) > hp.token_prune_len /\ Len(token1) > hp.token_prune_len

\* NoStopword testing token1 alone
NoStopwordFirst(token1, token2, hp) == token1 \notin hp.stopwords

\* lines 218-219: membership of the token as written, no lowercasing
NoStopword(token1, token2, hp) ==
    token1 \notin hp.stopwords /\ token2 \notin hp.stopwords

\* Emitted with the pair passed through when it is not fused
EmittedPassingThrough(token1, token2, fuse, hp) ==
    IF fuse THEN <<token1 \o <<SP>> \o token2>> ELSE <<token1, token2>>

\* what one iteration of the loop of line 207 appends to tmp_tokens
Emitted(token1, token2, fuse, hp) ==
    IF NoStopword(token1, token2, hp)
    THEN IF fuse THEN <<token1 \o <<SP>> \o token2>> ELSE <<>>
    ELSE <<token1, token2>>

\* the loop of lines 207-243 from index enx on; acc holds tmp_tokens, merged,
\* the term counts as mutated so far, and which pairs were fused
RECURSIVE MergeLoop(_, _, _, _, _)
MergeLoop(toks, bg, hp, enx, acc) ==
    IF enx > Len(toks) - 1 THEN acc
    ELSE
      LET token1 == toks[enx]
          token2 == toks[enx + 1]
          count1 == acc.tc[token1]
          count2 == acc.tc[token2]
          bgc == bg[<<token1, token2>>]
          fuse == /\ NoStopword(token1, token2, hp)
                  /\ BgsBelow(count1, count2, bgc, hp.merge_threshold)
                  /\ LongEnough(token1, token2, hp)
          to_add == token1 \o <<SP>> \o token2
          tc1 == Put(acc.tc, to_add, FracInt(bgc))
          tc2 == Put(tc1, token1, FracMul(tc1[token1], hp.merge_threshold))
          tc3 == Put(tc2, token2, FracMul(tc2[token2], hp.merge_threshold))
      IN  MergeLoop(toks, bg, hp, enx + 1,
              [tmp |-> acc.tmp \o Emitted(token1, token2, fuse, hp),
               merged |-> IF fuse THEN acc.merged \cup {token1, token2}
                          ELSE acc.merged,
               tc |-> IF fuse THEN tc3 ELSE acc.tc,
               fused |-> Append(acc.fused, fuse)])

\* Deduplicated dropping only the first occurrence of each token, as
\* list.remove would
DeduplicatedFirstOnly(tmp_tokens, merged, hp) ==
    IF hp.deduplication
    THEN LET keep == {i \in 1..Len(tmp_tokens) :
                         \/ tmp_tokens[i] \notin merged
                         \/ \E j \in 1..(i - 1) : tmp_tokens[j] = tmp_tokens[i]}
             RECURSIVE Kept(_)
             Kept(i) == IF i = 0 THEN <<>>
                        ELSE IF i \in keep THEN Append(Kept(i - 1), tmp_tokens[i])
                        ELSE Kept(i - 1)
         IN  Kept(Len(tmp_tokens))
    ELSE tmp_tokens

\* lines 245-254
Deduplicated(tmp_tokens, merged, hp) ==
    IF hp.deduplication
    THEN LET to_drop == {t \in Range(tmp_tokens) : t \in merged}
         IN  Filter(tmp_tokens, LAMBDA x : x \notin to_drop)
    ELSE tmp_tokens

\* the whole method: the new token list, the mutated counts, the bigram
\* counts and the locals of the loop
MergeTokensOp(toks, tc, hp) ==
    LET bg == BigramCounts(toks)
        out == MergeLoop(toks, bg, hp, 1,
                   [tmp |-> <<>>, merged |-> {}, tc |-> tc, fused |-> <<>>])
    IN  [tokens |-> Deduplicated(out.tmp, out.merged, hp),
         term_counts |-> out.tc,
         bigram_counts |-> bg,
         tmp_tokens |-> out.tmp,
         merged |-> out.merged,
         fused |-> out.fused]

-----------------------------------------------------------------------------
(* get_document_graph, lines 118-155.  A graph is its node list in         *)
(* insertion order (the order networkx iterates in) and the weights of its *)
(* edges.                                                                  *)

EmptyGraph == [nodes |-> <<>>, w |-> <<>>]

\* lines 128-133, weight being 1: nx.DiGraph.add_edge adds the missing end
\* points, u before v
AddEdge(Gr, u, v) ==
    LET n1 == IF u \in Range(Gr.nodes) THEN Gr.nodes ELSE Append(Gr.nodes, u)
        n2 == IF v \in Range(n1) THEN n1 ELSE Append(n1, v)
    IN  [nodes |-> n2,
         w |-> IF <<u, v>> \in DOMAIN Gr.w
               THEN [Gr.w EXCEPT ![<<u, v>>] = @ + 1]
               ELSE Put(Gr.w, <<u, v>>, 1)]

\* the loop of lines 123-133 from index i on
RECURSIVE GraphLoop(_, _, _)
GraphLoop(toks, i, Gr) ==
    IF i + 1 > Len(toks) THEN Gr
    ELSE GraphLoop(toks, i + 1, AddEdge(Gr, Lower(toks[i]), Lower(toks[i + 1])))

\* line 135: the edges go, their nodes stay
RemoveSelfLoops(Gr) ==
    [nodes |-> Gr.nodes,
     w |-> [e \in {e \in DOMAIN Gr.w : e[1] # e[2]} |-> Gr.w[e]]]

DocumentGraph(toks) == RemoveSelfLoops(GraphLoop(toks, 1, EmptyGraph))

\* line 136
Personalization(toks, tc) == [a \in Range(toks) |-> tc[a]]

\* one rank unit is 1/Scale.  Tol is the convergence tolerance per node in
\* rank units: nx.pagerank's tol of 1.0e-6 is finer than a rank unit, so the
\* iteration is taken to have converged once it moves by less than the
\* rounding of the integer arithmetic can
Scale == 10000
Tol == 10

RECURSIVE SumFun(_, _)
SumFun(f, S) ==
    IF S = {} THEN 0
    ELSE LET e == CHOOSE e \in S : TRUE IN f[e] + SumFun(f, S \ {e})

RECURSIVE LCMSet(_)
LCMSet(S) ==
    IF S = {} THEN 1
    ELSE LET e == CHOOSE e \in S : TRUE
             r == LCMSet(S \ {e})
         IN  (e * r) \div GCD(e, r)

\* a function on 1..n as an evaluated tuple
RECURSIVE Tuple(_, _)
Tuple(f, n) == IF n = 0 THEN <<>> ELSE Append(Tuple(f, n - 1), f[n])

RECURSIVE SumSeq(_)
SumSeq(s) == IF s = <<>> THEN 0 ELSE Head(s) + SumSeq(Tail(s))

\* nx.pagerank's personalization vector over the node list: the value of
\* each node (0 for a node that is no key), normalised to sum Scale; total
\* is the sum before normalising, 0 when the vector is all zero
PersonalVector(Gr, pers) ==
    LET n == Len(Gr.nodes)
        keyed == Range(Gr.nodes) \cap DOMAIN pers
        lcm == LCMSet({pers[k].d : k \in keyed})
        m == Tuple([i \in 1..n |->
                       IF Gr.nodes[i] \in keyed
                       THEN pers[Gr.nodes[i]].n * (lcm \div pers[Gr.nodes[i]].d)
                       ELSE 0], n)
        total == SumSeq(m)
    IN  [total |-> total,
         p |-> Tuple([i \in 1..n |->
                         IF total = 0 THEN 0 ELSE (m[i] * Scale) \div total], n)]

\* the out-weight of every node, in node order
OutWeights(Gr) ==
    Tuple([i \in 1..Len(Gr.nodes) |->
              SumFun(Gr.w, {e \in DOMAIN Gr.w : e[1] = Gr.nodes[i]})],
          Len(Gr.nodes))

\* one power-iteration step of nx.pagerank, the vectors in node order:
\* x = alpha * (x @ A + sum(x[dangling]) * p) + (1 - alpha) * p
PageRankStep(Gr, p, alpha, x) ==
    LET n == Len(Gr.nodes)
        out == OutWeights(Gr)
        dsum == SumSeq(Tuple([i \in 1..n |-> IF out[i] = 0 THEN x[i] ELSE 0], n))
        flow(j) ==
            SumSeq(Tuple([i \in 1..n |->
                IF <<Gr.nodes[i], Gr.nodes[j]>> \in DOMAIN Gr.w
                THEN (x[i] * Gr.w[<<Gr.nodes[i], Gr.nodes[j]>>]) \div out[i]
                ELSE 0], n))
    IN  Tuple([j \in 1..n |->
                  (alpha.n * (flow(j) + (dsum * p[j]) \div Scale)) \div alpha.d
                  + ((alpha.d - alpha.n) * p[j]) \div alpha.d], n)

\* the loop "for _ in range(max_iter)" with its convergence test
RECURSIVE PowerIteration(_, _, _, _, _)
PowerIteration(Gr, p, alpha, x, left) ==
    IF left = 0 THEN [err |-> "PowerIterationFailedConvergence", ranks |-> x]
    ELSE LET n == Len(Gr.nodes)
             xn == PageRankStep(Gr, p, alpha, x)
             delta == Tuple([i \in 1..n |-> Abs(xn[i] - x[i])], n)
         IN  IF SumSeq(delta) < n * Tol
             THEN [err |-> "none", ranks |-> xn]
             ELSE PowerIteration(Gr, p, alpha, xn, left - 1)

\* nx.pagerank(G, alpha, max_iter, personalization), lines 140-142: the
\* ranks in node order
PageRank(Gr, pers, alpha, max_iter) ==
    LET n == Len(Gr.nodes)
        pv == PersonalVector(Gr, pers)
    IN  IF n = 0 THEN [err |-> "none", ranks |-> <<>>]
        ELSE IF pv.total = 0
        THEN [err |-> "ZeroDivisionError", ranks |-> <<>>]
        ELSE PowerIteration(Gr, pv.p, alpha,
                 Tuple([i \in 1..n |-> Scale \div n], n), max_iter)

\* RankingRuns with >= for >
RankingRunsAtThreshold(Gr, hp) == Len(Gr.nodes) >= hp.num_keywords

\* line 138
RankingRuns(Gr, hp) == Len(Gr.nodes) > hp.num_keywords

\* lines 149-155: rank times token length, keyed by node in node order
ScaledByLength(Gr, ranks) ==
    [i \in 1..Len(Gr.nodes) |->
        <<Gr.nodes[i], ranks[i] * Len(Gr.nodes[i])>>]

\* lines 138-155
NodeRanksOp(Gr, toks, tc, hp) ==
    IF RankingRuns(Gr, hp)
    THEN LET pr == PageRank(Gr, Personalization(toks, tc),
                            hp.alpha, hp.max_iter)
         IN  [err |-> pr.err,
              node_ranks |-> IF pr.err = "none"
                             THEN ScaledByLength(Gr, pr.ranks) ELSE <<>>]
    ELSE [err |-> "none",
          node_ranks |->
              ScaledByLength(Gr, [i \in 1..Len(Gr.nodes) |-> Scale])]

-----------------------------------------------------------------------------
(* combine_keywords, lines 172-198, and the slice of line 298.             *)

\* Skipped without the stopword test
SkippedShortOnly(ranked_node, hp) == Len(ranked_node) <= 2

\* lines 184-185
Skipped(ranked_node, hp) ==
    Lower(ranked_node) \in hp.stopwords \/ Len(ranked_node) <= 2

\* lines 182-192: the keys of a dict are distinct, so appeared_tokens never
\* holds the node at hand
RECURSIVE CombineLoop(_, _, _, _)
CombineLoop(ranks, hp, i, acc) ==
    IF i > Len(ranks) THEN acc.combined
    ELSE LET ranked_node == ranks[i][1]
             keep == ~Skipped(ranked_node, hp) /\ ranked_node \notin acc.appeared
         IN  CombineLoop(ranks, hp, i + 1,
                 [combined |-> IF keep THEN Append(acc.combined, ranks[i])
                               ELSE acc.combined,
                  appeared |-> IF Skipped(ranked_node, hp) THEN acc.appeared
                               ELSE acc.appeared \cup {ranked_node}])

CombineKeywordsOp(ranks, hp) ==
    SortedDesc(CombineLoop(ranks, hp, 1, [combined |-> <<>>, appeared |-> {}]),
               LAMBDA a, b : a[2] > b[2])

\* Sliced without the slice
Unsliced(keywords, hp) == keywords

\* final_keywords[:num_keywords] for num_keywords >= 0
Sliced(keywords, hp) ==
    SubSeq(keywords, 1,
           IF hp.num_keywords < Len(keywords) THEN hp.num_keywords
           ELSE Len(keywords))

-----------------------------------------------------------------------------
(* parse_input, lines 157-170.  A document argument is a str, a list of    *)
(* str, or a value of another type; as a path it names a file of Files.    *)

StrDoc(text) == [kind |-> "str", val |-> text]
ListDoc(lines) == [kind |-> "list", val |-> lines]
IntDoc == [kind |-> "int", val |-> <<>>]

new == <<"n", "e", "w">>
york == <<"y", "o", "r", "k">>
city == <<"c", "i", "t", "y">>
is == <<"i", "s">>
great == <<"g", "r", "e", "a", "t">>
big == <<"b", "i", "g">>
DOT == "."

\* the files that exist, by path
Files == [path \in {<<"a">>} |-> big \o <<SP>> \o city \o <<NL>> \o is \o <<SP>> \o great]

\* ParseInput taking every input_type but "file" as "string"
ParseInputLenient(doc, input_type) ==
    IF input_type = "file"
    THEN IF doc.kind # "str" THEN [err |-> "TypeError", lines |-> <<>>]
         ELSE IF doc.val \notin DOMAIN Files
         THEN [err |-> "FileNotFoundError", lines |-> <<>>]
         ELSE [err |-> "none", lines |-> Split(Files[doc.val])]
    ELSE IF doc.kind = "list"
    THEN [err |-> "none", lines |-> doc.val]
    ELSE IF doc.kind = "str"
    THEN [err |-> "none", lines |-> Split(doc.val)]
    ELSE [err |-> "UnboundLocalError", lines |-> <<>>]

ParseInput(doc, input_type) ==
    IF input_type = "file"
    THEN IF doc.kind # "str" THEN [err |-> "TypeError", lines |-> <<>>]
         ELSE IF doc.val \notin DOMAIN Files
         THEN [err |-> "FileNotFoundError", lines |-> <<>>]
         ELSE [err |-> "none", lines |-> Split(Files[doc.val])]
    ELSE IF input_type = "string" /\ doc.kind = "list"
    THEN [err |-> "none", lines |-> doc.val]
    ELSE IF input_type = "string" /\ doc.kind = "str"
    THEN [err |-> "none", lines |-> Split(doc.val)]
    ELSE [err |-> "UnboundLocalError", lines |-> <<>>]

-----------------------------------------------------------------------------
(* __init__, lines 21-55: the hyperparameters given, the defaults for the  *)
(* rest.                                                                   *)

DefaultTokenPruneLen == 1
DefaultNumKeywords == 10
DefaultAlpha == Frac(1, 10)
DefaultMaxIter == 100
DefaultMergeThreshold == Frac(1, 2)
DefaultDeduplication == TRUE

Construct(given) ==
    [token_prune_len |-> IF "token_prune_len" \in DOMAIN given
                         THEN given.token_prune_len ELSE DefaultTokenPruneLen,
     num_keywords |-> IF "num_keywords" \in DOMAIN given
                      THEN given.num_keywords ELSE DefaultNumKeywords,
     alpha |-> IF "alpha" \in DOMAIN given THEN given.alpha ELSE DefaultAlpha,
     max_iter |-> IF "max_iter" \in DOMAIN given
                  THEN given.max_iter ELSE DefaultMaxIter,
     merge_threshold |-> IF "merge_threshold" \in DOMAIN given
                         THEN given.merge_threshold ELSE DefaultMergeThreshold,
     deduplication |-> IF "deduplication" \in DOMAIN given
                       THEN given.deduplication ELSE DefaultDeduplication,
     stopwords |-> given.stopwords]

-----------------------------------------------------------------------------
(* The instance and find_keywords, lines 283-298, one action per stage.    *)

NoFrame == [in_tokens |-> <<>>, tmp_tokens |-> <<>>, merged |-> {},
            fused |-> <<>>, ranked |-> FALSE]

Pending == [kind |-> "pending", val |-> <<>>, err |-> "none"]
Raised(e) == [kind |-> "error", val |-> <<>>, err |-> e]
Returned(v) == [kind |-> "list", val |-> v, err |-> "none"]

\* the instance right after __init__
Constructed(given) ==
    /\ hyperparameters = Construct(given)
    /\ attrs = {"hyperparameters"}
    /\ document = <<>>
    /\ full_tokens = <<>>
    /\ tokens = <<>>
    /\ term_counts = <<>>
    /\ sorted_terms_tf = <<>>
    /\ bigram_counts = <<>>
    /\ G = EmptyGraph
    /\ node_ranks = <<>>
    /\ final_keywords = <<>>
    /\ pc = "idle"
    /\ args = [document |-> IntDoc, input_type |-> "none"]
    /\ ret = [kind |-> "none", val |-> <<>>, err |-> "none"]
    /\ frame = NoFrame
    /\ fresh = TRUE
    /\ prev = [kind |-> "none", val |-> <<>>, err |-> "none"]

\* lines 291-292
FindKeywords(doc, input_type) ==
    LET parsed == ParseInput(doc, input_type) IN
    /\ pc = "idle"
    /\ args' = [document |-> doc, input_type |-> input_type]
    /\ fresh' = FALSE
    /\ prev' = ret
    /\ frame' = NoFrame
    /\ IF parsed.err # "none"
       THEN /\ ret' = Raised(parsed.err)
            /\ UNCHANGED <<document, attrs, pc>>
       ELSE /\ document' = Join(parsed.lines)
            /\ attrs' = attrs \cup {"document"}
            /\ pc' = "tokenize"
            /\ ret' = Pending
    /\ UNCHANGED <<hyperparameters, full_tokens, tokens, term_counts,
                   sorted_terms_tf, bigram_counts, G, node_ranks,
                   final_keywords>>

\* line 293
Tokenize ==
    /\ pc = "tokenize"
    /\ "document" \in attrs
    /\ tokens' = TokenizeTokens(document)
    /\ IF CharMode(document)
       THEN /\ full_tokens' = FindAll(document)
            /\ attrs' = attrs \cup {"tokens", "full_tokens"}
       ELSE /\ full_tokens' = <<>>
            /\ attrs' = (attrs \cup {"tokens"}) \ {"full_tokens"}
    /\ pc' = "compute_tf_scores"
    /\ UNCHANGED <<hyperparameters, document, term_counts, sorted_terms_tf,
                   bigram_counts, G, node_ranks, final_keywords, args, ret,
                   frame, fresh, prev>>

\* ComputeTfScores with a counter that lives on the instance and is updated,
\* not rebuilt
ComputeTfScoresKeepingCounts ==
    LET old == IF "term_counts" \in attrs THEN term_counts ELSE <<>>
        now == TermCounter(tokens)
    IN
    /\ pc = "compute_tf_scores"
    /\ "tokens" \in attrs
    /\ term_counts' =
           [t \in DOMAIN old \cup DOMAIN now |->
               IF t \notin DOMAIN old THEN now[t]
               ELSE IF t \notin DOMAIN now THEN old[t]
               ELSE FracAdd(old[t], now[t])]
    /\ sorted_terms_tf' = SortedTermsTf(tokens)
    /\ attrs' = attrs \cup {"term_counts", "sorted_terms_tf"}
    /\ pc' = "merge_tokens"
    /\ UNCHANGED <<hyperparameters, document, full_tokens, tokens,
                   bigram_counts, G, node_ranks, final_keywords, args, ret,
                   frame, fresh, prev>>

\* line 294
ComputeTfScores ==
    /\ pc = "compute_tf_scores"
    /\ "tokens" \in attrs
    /\ term_counts' = TermCounter(tokens)
    /\ sorted_terms_tf' = SortedTermsTf(tokens)
    /\ attrs' = attrs \cup {"term_counts", "sorted_terms_tf"}
    /\ pc' = "merge_tokens"
    /\ UNCHANGED <<hyperparameters, document, full_tokens, tokens,
                   bigram_counts, G, node_ranks, final_keywords, args, ret,
                   frame, fresh, prev>>

\* line 295
MergeTokens ==
    LET r == MergeTokensOp(tokens, term_counts, hyperparameters) IN
    /\ pc = "merge_tokens"
    /\ {"tokens", "term_counts"} \subseteq attrs
    /\ tokens' = r.tokens
    /\ term_counts' = r.term_counts
    /\ bigram_counts' = r.bigram_counts
    /\ attrs' = attrs \cup {"bigram_counts"}
    /\ frame' = [frame EXCEPT !.in_tokens = tokens,
                              !.tmp_tokens = r.tmp_tokens,
                              !.merged = r.merged,
                              !.fused = r.fused]
    /\ pc' = "get_document_graph"
    /\ UNCHANGED <<hyperparameters, document, full_tokens, sorted_terms_tf,
                   G, node_ranks, final_keywords, args, ret, fresh, prev>>

\* line 296
GetDocumentGraph ==
    LET Gr == DocumentGraph(tokens)
        r == NodeRanksOp(Gr, tokens, term_counts, hyperparameters)
    IN
    /\ pc = "get_document_graph"
    /\ {"tokens", "term_counts"} \subseteq attrs
    /\ G' = Gr
    /\ frame' = [frame EXCEPT !.ranked = RankingRuns(Gr, hyperparameters)]
    /\ IF r.err # "none"
       THEN /\ ret' = Raised(r.err)
            /\ pc' = "idle"
            /\ attrs' = attrs \cup {"G"}
            /\ UNCHANGED node_ranks
       ELSE /\ node_ranks' = r.node_ranks
            /\ attrs' = attrs \cup {"G", "node_ranks"}
            /\ pc' = "combine_keywords"
            /\ UNCHANGED ret
    /\ UNCHANGED <<hyperparameters, document, full_tokens, tokens,
                   term_counts, sorted_terms_tf, bigram_counts,
                   final_keywords, args, fresh, prev>>

\* lines 297-298
CombineKeywords ==
    /\ pc = "combine_keywords"
    /\ "node_ranks" \in attrs
    /\ final_keywords' = CombineKeywordsOp(node_ranks, hyperparameters)
    /\ attrs' = attrs \cup {"final_keywords"}
    /\ ret' = Returned(Sliced(final_keywords', hyperparameters))
    /\ pc' = "idle"
    /\ UNCHANGED <<hyperparameters, document, full_tokens, tokens,
                   term_counts, sorted_terms_tf, bigram_counts, G, node_ranks,
                   args, frame, fresh, prev>>

\* what find_keywords(doc, input_type) gives on an instance just constructed
\* with hyperparameters hp
FreshOutcome(hp, doc, input_type) ==
    LET parsed == ParseInput(doc, input_type)
        toks == TokenizeTokens(Join(parsed.lines))
        m == MergeTokensOp(toks, TermCounter(toks), hp)
        Gr == DocumentGraph(m.tokens)
        r == NodeRanksOp(Gr, m.tokens, m.term_counts, hp)
    IN  IF parsed.err # "none" THEN Raised(parsed.err)
        ELSE IF r.err # "none" THEN Raised(r.err)
        ELSE Returned(Sliced(CombineKeywordsOp(r.node_ranks, hp), hp))

Stage ==
    \/ Tokenize
    \/ ComputeTfScores
    \/ MergeTokens
    \/ GetDocumentGraph
    \/ CombineKeywords

-----------------------------------------------------------------------------
(* Specifications.                                                         *)

Big == <<"B", "i", "g">>
IS == <<"I", "S">>
ab == <<"a", "b">>

\* "new york city is great. new york city is big."
NewYorkDoc ==
    new \o <<SP>> \o york \o <<SP>> \o city \o <<SP>> \o is \o <<SP>> \o great
    \o <<DOT, SP>> \o
    new \o <<SP>> \o york \o <<SP>> \o city \o <<SP>> \o is \o <<SP>> \o big
    \o <<DOT>>

StopIs == {is}
StopIsBig == {is, big}

Configurations ==
    { [stopwords |-> StopIs],
      [stopwords |-> StopIsBig],
      [stopwords |-> StopIs, num_keywords |-> 2],
      [stopwords |-> StopIs, num_keywords |-> 2, merge_threshold |-> Frac(2, 1)],
      [stopwords |-> StopIsBig, deduplication |-> FALSE],
      [stopwords |-> StopIs, num_keywords |-> 1, max_iter |-> 1],
      [stopwords |-> StopIsBig, num_keywords |-> 3, token_prune_len |-> 3] }

InputTypes == {"string", "file", "text"}

Documents ==
    { StrDoc(NewYorkDoc),
      StrDoc(<<>>),
      StrDoc(<<SP, SP>>),
      StrDoc(<<NL, SP, TAB>>),
      ListDoc(<<>>),
      ListDoc(<< <<>>, <<SP>> >>),
      ListDoc(<<new \o <<SP>> \o york, city \o <<SP>> \o is \o <<SP>> \o Big>>),
      StrDoc(Big \o <<SP>> \o IS \o <<SP>> \o new \o <<SP>> \o ab \o <<NL>>
             \o ab \o <<SP>> \o new \o <<SP>> \o Big),
      StrDoc(ab \o <<"7", TAB, FWComma>> \o new),
      StrDoc(<<"a">>),
      IntDoc }

Init == \E given \in Configurations : Constructed(given)

Next ==
    \/ \E doc \in Documents, input_type \in InputTypes :
           FindKeywords(doc, input_type)
    \/ Stage

Spec == Init /\ [][Next]_vars

-----------------------------------------------------------------------------
(* One call on a fresh instance, over generated documents and              *)
(* configurations.                                                         *)

MaxWords == 4
MaxBlank == 3

\* all sequences over S of length at most n
SeqsUpTo(S, n) == UNION {[1..k -> S] : k \in 0..n}

Vocabulary == {new, big, Big, is}

\* up to MaxWords words separated by single spaces
WordDocuments == {StrDoc(Join(ws)) : ws \in SeqsUpTo(Vocabulary, MaxWords)}

\* the empty and the whitespace-only documents, as a str and as lines
BlankDocuments ==
    {StrDoc(text) : text \in SeqsUpTo(Whitespace, MaxBlank)}
    \cup {ListDoc(lines) : lines \in SeqsUpTo(SeqsUpTo(Whitespace, 1), 2)}

WideConfigurations ==
    { [stopwords |-> sw, num_keywords |-> nk, merge_threshold |-> thr,
       deduplication |-> dd] :
      sw \in {StopIs, StopIsBig}, nk \in {0, 1, 2, DefaultNumKeywords},
      thr \in {DefaultMergeThreshold, Frac(2, 1)}, dd \in BOOLEAN }

InitOnce == \E given \in WideConfigurations : Constructed(given)

NextOnce ==
    \/ \E doc \in WordDocuments \cup BlankDocuments :
           fresh /\ FindKeywords(doc, "string")
    \/ Stage

SpecOnce == InitOnce /\ [][NextOnce]_vars

-----------------------------------------------------------------------------
(* tokenize alone, over every short document.                              *)

MaxDocLen == 5

TokAlphabet == {"a", "A", "7", SP, NL, TAB, FWComma}

\* the instance when find_keywords has reached the stage at position at,
\* self.document being text
Called(given, text, at) ==
    /\ hyperparameters = Construct(given)
    /\ document = text
    /\ full_tokens = <<>>
    /\ term_counts = <<>>
    /\ sorted_terms_tf = <<>>
    /\ bigram_counts = <<>>
    /\ G = EmptyGraph
    /\ node_ranks = <<>>
    /\ final_keywords = <<>>
    /\ pc = at
    /\ args = [document |-> ListDoc(<<text>>), input_type |-> "string"]
    /\ ret = Pending
    /\ frame = NoFrame
    /\ fresh = FALSE
    /\ prev = [kind |-> "none", val |-> <<>>, err |-> "none"]

InitTok ==
    \E text \in SeqsUpTo(TokAlphabet, MaxDocLen) :
        /\ Called([stopwords |-> StopIs], text, "tokenize")
        /\ attrs = {"hyperparameters", "document"}
        /\ tokens = <<>>

NextTok == Tokenize

SpecTok == InitTok /\ [][NextTok]_vars

-----------------------------------------------------------------------------
(* compute_tf_scores and merge_tokens, over every short token sequence the *)
(* word mode of tokenize can leave in self.tokens.                         *)

MaxTokens == 5

MergeVocabulary == {new, ab, is}

MergeConfigurations ==
    { [stopwords |-> StopIs, merge_threshold |-> thr, deduplication |-> dd,
       token_prune_len |-> tpl] :
      thr \in {DefaultMergeThreshold, Frac(1, 4), Frac(2, 1)},
      dd \in BOOLEAN, tpl \in {DefaultTokenPruneLen, 2} }

\* a document the word mode tokenizes into toks
DocumentOf(toks) == <<SP>> \o Join(toks) \o <<SP>>

InitMerge ==
    \E toks \in SeqsUpTo(MergeVocabulary, MaxTokens),
       given \in MergeConfigurations :
        /\ Called(given, DocumentOf(toks), "compute_tf_scores")
        /\ attrs = {"hyperparameters", "document", "tokens"}
        /\ tokens = TokenizeTokens(DocumentOf(toks))

NextMerge ==
    \/ ComputeTfScores
    \/ MergeTokens

SpecMerge == InitMerge /\ [][NextMerge]_vars

-----------------------------------------------------------------------------
(* Properties.                                                             *)

Keywords == {ret.val[i][1] : i \in 1..Len(ret.val)}
Stopwords == hyperparameters.stopwords
IsCompound(token) == SP \in Range(token)
AfterMerge == pc \in {"get_document_graph", "combine_keywords", "idle"}
PairIndexes == 1..(Len(frame.in_tokens) - 1)

\* C1: the list find_keywords returns has at most num_keywords entries.
ThmC1_Bound ==
    ret.kind = "list" => Len(ret.val) <= hyperparameters.num_keywords

WitC1_Truncated ==
    /\ ret.kind = "list"
    /\ hyperparameters.num_keywords > 0
    /\ Len(final_keywords) > hyperparameters.num_keywords

\* C2: no returned keyword has a lowercase form in the stopword set, compound
\* keywords and tokens written in upper or mixed case included.
ThmC2_NoStopword ==
    ret.kind = "list" =>
        \A i \in 1..Len(ret.val) : Lower(ret.val[i][1]) \notin Stopwords

WitC2_MixedCaseStopword ==
    /\ ret.kind = "list"
    /\ \E kw \in Keywords : IsCompound(kw)
    /\ \E t \in Range(frame.in_tokens) :
           /\ t \notin Stopwords
           /\ Lower(t) \in Stopwords
           /\ Lower(t) \in Range(G.nodes)

\* C3: whatever calls came before on the instance, a finished call ends as
\* the same call on a freshly constructed instance with the same
\* hyperparameters ends.
ThmC3_FunctionOfDocument ==
    (pc = "idle" /\ ~fresh) =>
        ret = FreshOutcome(hyperparameters, args.document, args.input_type)

WitC3_AfterFailedCall ==
    /\ pc = "idle"
    /\ ret.kind = "list"
    /\ ret.val # <<>>
    /\ prev.kind = "error"
    /\ "full_tokens" \notin attrs

\* C4: on "new york city is great. new york city is big." given as a string,
\* with the defaults and a stopword set holding "is", merge_tokens fuses
\* "new" and "york", no fused pair has "is" as a component, and the returned
\* list holds "new york".
NewYorkCase ==
    /\ args = [document |-> StrDoc(NewYorkDoc), input_type |-> "string"]
    /\ is \in Stopwords
    /\ hyperparameters = Construct([stopwords |-> Stopwords])

ThmC4_NewYork ==
    NewYorkCase =>
        /\ AfterMerge =>
              /\ \E i \in PairIndexes :
                     /\ frame.in_tokens[i] = new
                     /\ frame.in_tokens[i + 1] = york
                     /\ frame.fused[i]
              /\ \A i \in PairIndexes :
                     frame.fused[i] =>
                         is \notin {frame.in_tokens[i], frame.in_tokens[i + 1]}
        /\ pc = "idle" =>
              ret.kind = "list" /\ (new \o <<SP>> \o york) \in Keywords

WitC4_NewYorkReturned ==
    /\ NewYorkCase
    /\ pc = "idle"
    /\ (new \o <<SP>> \o york) \in Keywords

\* C5, as amended: with deduplication disabled, a pair of non-stopword tokens
\* that is not fused adds nothing to the output of merge_tokens: the output
\* holds one compound per fused pair and the two tokens of every pair that
\* touches a stopword, and nothing else.
TouchesStopword(i) ==
    ~NoStopword(frame.in_tokens[i], frame.in_tokens[i + 1], hyperparameters)

Unfused(i) == ~TouchesStopword(i) /\ ~frame.fused[i]

MergeDone == pc = "get_document_graph"

ScoredByLength ==
    /\ \A i \in 1..Len(ret.val) : ret.val[i][2] = Scale * Len(ret.val[i][1])
    /\ \A i, j \in 1..Len(ret.val) :
           i < j => Len(ret.val[i][1]) >= Len(ret.val[j][1])

ThmC6_SmallGraphBypass ==
    (ret.kind = "list" /\ Len(G.nodes) <= hyperparameters.num_keywords) =>
        ~frame.ranked /\ ScoredByLength

WitC6_SmallGraphBypass ==
    /\ ret.kind = "list"
    /\ Len(G.nodes) <= hyperparameters.num_keywords
    /\ Len(ret.val) >= 2
    /\ Len(ret.val[1][1]) > Len(ret.val[2][1])

\* C6, as claimed: when the document has at most num_keywords distinct
\* tokens, the ranking is bypassed and every returned keyword scores 1.0
\* times its length.
CexC6_FewDistinctTokensBypass ==
    (/\ ret.kind = "list"
     /\ Cardinality(Range(TokenizeTokens(document)))
            <= hyperparameters.num_keywords) =>
        ~frame.ranked /\ ScoredByLength

\* C7: an empty or whitespace-only document given with input_type "string",
\* as a str or as lines, raises nothing, leaves every stage with an empty
\* token list, empty counts, a graph without nodes and empty ranks, and
\* returns the empty list.
BlankText(text) == \A i \in 1..Len(text) : text[i] \in Whitespace

BlankCase ==
    /\ args.input_type = "string"
    /\ \/ args.document.kind = "str" /\ BlankText(args.document.val)
       \/ /\ args.document.kind = "list"
          /\ \A l \in 1..Len(args.document.val) :
                 BlankText(args.document.val[l])

ThmC7_BlankDocument ==
    BlankCase =>
        /\ ret.kind # "error"
        /\ pc # "tokenize" => tokens = <<>>
        /\ pc \notin {"tokenize", "compute_tf_scores"} =>
               DOMAIN term_counts = {}
        /\ pc \in {"combine_keywords", "idle"} =>
               G.nodes = <<>> /\ node_ranks = <<>>
        /\ pc = "idle" => ret = Returned(<<>>)

WitC7_BlankLinesReturned ==
    /\ BlankCase
    /\ pc = "idle"
    /\ ret.kind = "list"
    /\ args.document.kind = "list"
    /\ TAB \in Range(document)

\* C8: a call with an input_type that is neither "file" nor "string" ends in
\* the error parse_input raises, whatever the document, and returns no list.
ThmC8_InvalidInputType ==
    (~fresh /\ args.input_type \notin {"file", "string"}) =>
        pc = "idle" /\ ret = Raised("UnboundLocalError")

WitC8_InvalidInputType ==
    /\ args = [document |-> StrDoc(NewYorkDoc), input_type |-> "text"]
    /\ ret.kind = "error"
    /\ prev.kind = "list"

\* C9: with deduplication enabled, the tokens merge_tokens leaves hold no
\* occurrence of a component of a fusion, and are the other emitted tokens in
\* their order.
ThmC9_Deduplication ==
    (MergeDone /\ hyperparameters.deduplication) =>
        /\ \A t \in frame.merged : t \notin Range(tokens)
        /\ tokens = SelectSeq(frame.tmp_tokens, LAMBDA x : x \notin frame.merged)

WitC9_StandaloneDropped ==
    /\ MergeDone
    /\ hyperparameters.deduplication
    /\ \E i, j \in 1..Len(frame.tmp_tokens) :
           /\ i < j
           /\ frame.tmp_tokens[i] = frame.tmp_tokens[j]
           /\ frame.tmp_tokens[i] \in frame.merged
    /\ \E k \in 1..Len(tokens) : IsCompound(tokens[k])
    /\ \E k \in 1..Len(tokens) : ~IsCompound(tokens[k])

\* C10: in the character mode tokenize emits one-character tokens, none of
\* them a whitespace character, the full-width comma or a digit.
CexC10_NoWhitespaceToken ==
    (pc = "compute_tf_scores" /\ CharMode(document)) =>
        \A i \in 1..Len(tokens) :
            /\ Len(tokens[i]) = 1
            /\ tokens[i][1] \notin Whitespace \cup {FWComma} \cup Digits

====
